---- MODULE Spec2Model ----
(***************************************************************************)
(* facet-actix: the Json<T> and Form<T> extractors (src/src/json.rs,       *)
(* src/src/form.rs) and the Json<T> responder, with the echo handler of    *)
(* examples/actix_web_server.                                              *)
(*                                                                         *)
(* Texts (header values, bodies) are sequences of bytes.  Option<X> is a   *)
(* sequence of length 0 (None) or 1 (Some(x)).  Result<X, E> is a record   *)
(* [ok |-> TRUE, val |-> x] or [ok |-> FALSE, err |-> e].                  *)
(***************************************************************************)
EXTENDS Integers, Sequences, FiniteSets, TLC

\* ------------------------------------------------------------ bounds
\* Largest number of times a Body Reader answers Pending before completing.
MaxPending == 2

\* ------------------------------------------------------------ Option / Result
None == <<>>
Some(x) == <<x>>
Ok(x) == [ok |-> TRUE, val |-> x]
Err(e) == [ok |-> FALSE, err |-> e]

\* ------------------------------------------------------------ media types
\* mime::APPLICATION_JSON.as_ref() = "application/json"
APPLICATION_JSON == <<97, 112, 112, 108, 105, 99, 97, 116, 105, 111, 110, 47, 106, 115, 111, 110>>
\* mime::APPLICATION_WWW_FORM_URLENCODED.as_ref() = "application/x-www-form-urlencoded"
APPLICATION_WWW_FORM_URLENCODED == <<97, 112, 112, 108, 105, 99, 97, 116, 105, 111, 110, 47, 120, 45, 119, 119, 119, 45, 102, 111, 114, 109, 45, 117, 114, 108, 101, 110, 99, 111, 100, 101, 100>>
\* mime::MULTIPART_FORM_DATA.as_ref() = "multipart/form-data"
MULTIPART_FORM_DATA == <<109, 117, 108, 116, 105, 112, 97, 114, 116, 47, 102, 111, 114, 109, 45, 100, 97, 116, 97>>

\* Content-Type header values a client sends.
\* "application/json; charset=utf-8"
CtJsonCharset == <<97, 112, 112, 108, 105, 99, 97, 116, 105, 111, 110, 47, 106, 115, 111, 110, 59, 32, 99, 104, 97, 114, 115, 101, 116, 61, 117, 116, 102, 45, 56>>
\* "Application/JSON"
CtJsonUpper == <<65, 112, 112, 108, 105, 99, 97, 116, 105, 111, 110, 47, 74, 83, 79, 78>>
\* "text/plain"
CtTextPlain == <<116, 101, 120, 116, 47, 112, 108, 97, 105, 110>>
\* "application/x-www-form-urlencoded; charset=UTF-8"
CtFormCharset == <<97, 112, 112, 108, 105, 99, 97, 116, 105, 111, 110, 47, 120, 45, 119, 119, 119, 45, 102, 111, 114, 109, 45, 117, 114, 108, 101, 110, 99, 111, 100, 101, 100, 59, 32, 99, 104, 97, 114, 115, 101, 116, 61, 85, 84, 70, 45, 56>>
\* "multipart/form-data; boundary=x"
CtMultipartBoundary == <<109, 117, 108, 116, 105, 112, 97, 114, 116, 47, 102, 111, 114, 109, 45, 100, 97, 116, 97, 59, 32, 98, 111, 117, 110, 100, 97, 114, 121, 61, 120>>
\* the single opaque byte 0xFF (a legal header value, not visible ASCII)
CtOpaque == <<255>>
\* "application/x-www-form-urlencoded; n=" followed by the byte 0xE9
CtFormOpaque == <<97, 112, 112, 108, 105, 99, 97, 116, 105, 111, 110, 47, 120, 45, 119, 119, 119, 45, 102, 111, 114, 109, 45, 117, 114, 108, 101, 110, 99, 111, 100, 101, 100, 59, 32, 110, 61, 233>>

HeaderValues ==
    { APPLICATION_JSON, CtJsonCharset, CtJsonUpper, CtTextPlain,
      APPLICATION_WWW_FORM_URLENCODED, CtFormCharset, CtMultipartBoundary,
      CtOpaque, CtFormOpaque }

\* The Content-Type header of a request: absent, or one value.
ContentTypes == {None} \cup { Some(v) : v \in HeaderValues }

\* ------------------------------------------------------------ byte helpers
\* HeaderValue::to_str succeeds iff every byte is visible ASCII or a tab.
is_visible_ascii(b) == (b >= 32 /\ b < 127) \/ b = 9

to_str(ct) ==
    IF \A i \in 1..Len(ct) : is_visible_ascii(ct[i]) THEN Ok(ct) ELSE Err("ToStrError")

\* str::starts_with
starts_with(s, p) == Len(p) <= Len(s) /\ SubSeq(s, 1, Len(p)) = p

\* ------------------------------------------------------------ request bodies
\* "7"
BodyJson7 == <<55>>
\* "12"
BodyJson12 == <<49, 50>>
\* "n=7"
BodyForm7 == <<110, 61, 55>>
\* "n=x"
BodyFormBad == <<110, 61, 120>>
\* ""
BodyEmpty == <<>>
\* the byte 0xFF alone: not well-formed UTF-8
BodyNotUtf8 == <<255>>

Bodies == { BodyJson7, BodyJson12, BodyForm7, BodyFormBad, BodyEmpty, BodyNotUtf8 }

\* Errors the transport reports through the Body Reader (actix_web::Error).
TransportErrors == { "PayloadOverflow", "PayloadIncomplete" }

\* What the Body Reader completes with: Result<Bytes, actix_web::Error>.
ReaderResults == { Ok(b) : b \in Bodies } \cup { Err(e) : e \in TransportErrors }

\* ------------------------------------------------------------ text and codecs
\* str::from_utf8: the width of the sequence a lead byte opens, 0 if none.
utf8_char_width(b) ==
    IF b < 128 THEN 1
    ELSE IF b >= 194 /\ b <= 223 THEN 2
    ELSE IF b >= 224 /\ b <= 239 THEN 3
    ELSE IF b >= 240 /\ b <= 244 THEN 4
    ELSE 0

RECURSIVE utf8_valid_from(_, _)
utf8_valid_from(s, i) ==
    IF i > Len(s) THEN TRUE
    ELSE LET w == utf8_char_width(s[i])
         IN /\ w # 0
            /\ i + w - 1 <= Len(s)
            /\ \A k \in (i + 1)..(i + w - 1) : s[k] >= 128 /\ s[k] <= 191
            /\ utf8_valid_from(s, i + w)

from_utf8(data) == IF utf8_valid_from(data, 1) THEN Ok(data) ELSE Err("Utf8Error")

IsDigit(b) == b >= 48 /\ b <= 57

RECURSIVE DecimalValue(_)
DecimalValue(s) ==
    IF Len(s) = 0 THEN 0 ELSE 10 * DecimalValue(SubSeq(s, 1, Len(s) - 1)) + (s[Len(s)] - 48)

\* A decimal u8: digits only, no leading zero, at most 255.
ParseU8(s) ==
    IF Len(s) = 0 THEN Err("UnexpectedEof")
    ELSE IF ~ \A i \in 1..Len(s) : IsDigit(s[i]) THEN Err("UnexpectedToken")
    ELSE IF Len(s) > 1 /\ s[1] = 48 THEN Err("UnexpectedToken")
    ELSE IF Len(s) > 3 \/ DecimalValue(s) > 255 THEN Err("NumberOutOfRange")
    ELSE Ok(DecimalValue(s))

\* facet_json::from_slice::<T>, for T = u8: the JSON text of a number.
facet_json_from_slice(data) == ParseU8(data)

\* facet_urlencoded::from_str_owned::<T>, for T = struct { n: u8 }: "n=<u8>".
facet_urlencoded_from_str_owned(text) ==
    IF starts_with(text, <<110, 61>>)
    THEN LET r == ParseU8(SubSeq(text, 3, Len(text)))
         IN IF r.ok THEN r ELSE Err("InvalidValue")
    ELSE Err("MissingField")

RECURSIVE DecimalText(_)
DecimalText(n) ==
    IF n < 10 THEN <<48 + n>> ELSE Append(DecimalText(n \div 10), 48 + (n % 10))

\* Errors facet_json::to_string can report (SerializeError<JsonSerializeError>).
EncodeErrors == { "SerializeError" }

\* facet_json::to_string(&value): the JSON text, or a serialize error for a
\* value the serializer cannot write.
facet_json_to_string(v, fails) == IF fails THEN Err("SerializeError") ELSE Ok(DecimalText(v))

\* ------------------------------------------------------------ wrappers
\* pub struct Json<T>(pub T);
Json(v) == [inner |-> v]
\* pub struct Form<T>(pub T);
Form(v) == [inner |-> v]
into_inner(w) == w.inner
deref(w) == w.inner

\* ------------------------------------------------------------ rejections
BAD_REQUEST == 400
UNSUPPORTED_MEDIA_TYPE == 415
UNPROCESSABLE_ENTITY == 422
INTERNAL_SERVER_ERROR == 500
OK == 200

\* JsonRejection / FormRejection: four variants, two with a payload.
Body(err) == [kind |-> "Body", err |-> err]
Deserialize(err) == [kind |-> "Deserialize", err |-> err]
MissingContentType == [kind |-> "MissingContentType"]
InvalidContentType == [kind |-> "InvalidContentType"]

JsonRejection_status_code(r) ==
    CASE r.kind = "Body" -> BAD_REQUEST
      [] r.kind = "Deserialize" -> UNPROCESSABLE_ENTITY
      [] r.kind \in {"MissingContentType", "InvalidContentType"} -> UNSUPPORTED_MEDIA_TYPE

\* FormRejection_status_code answering 400 for a missing header.
FormRejection_status_code_Missing400(r) ==
    CASE r.kind \in {"Body", "MissingContentType"} -> BAD_REQUEST
      [] r.kind = "Deserialize" -> UNPROCESSABLE_ENTITY
      [] r.kind = "InvalidContentType" -> UNSUPPORTED_MEDIA_TYPE

FormRejection_status_code(r) ==
    CASE r.kind = "Body" -> BAD_REQUEST
      [] r.kind = "Deserialize" -> UNPROCESSABLE_ENTITY
      [] r.kind \in {"MissingContentType", "InvalidContentType"} -> UNSUPPORTED_MEDIA_TYPE

\* impl fmt::Display (backquotes left out): a fixed prefix, then the error text for the two
\* variants that carry one.
JsonRejection_fmt(r) ==
    CASE r.kind = "Body" -> <<"Failed to read request body: ", r.err>>
      [] r.kind = "Deserialize" -> <<"Failed to deserialize JSON: ", r.err>>
      [] r.kind = "MissingContentType" -> <<"Missing Content-Type: application/json header">>
      [] r.kind = "InvalidContentType" -> <<"Invalid Content-Type header: expected application/json">>

FormRejection_fmt(r) ==
    CASE r.kind = "Body" -> <<"Failed to read request body: ", r.err>>
      [] r.kind = "Deserialize" -> <<"Failed to deserialize form: ", r.err>>
      [] r.kind = "MissingContentType" -> <<"Missing Content-Type: x-www-form-urlencoded header">>
      [] r.kind = "InvalidContentType" -> <<"Invalid Content-Type header: expected x-www-form-urlencoded">>

\* ------------------------------------------------------------ Content-Type guards
\* json.rs: match req.headers().get(CONTENT_TYPE) { .. }.  HeaderValue != str
\* compares the bytes.
JsonGuard(content_type) ==
    IF content_type = None THEN "MissingContentType"
    ELSE IF content_type[1] # APPLICATION_JSON THEN "InvalidContentType"
    ELSE "Accepted"

\* FormGuard with the two rejections swapped for an absent header.
FormGuard_MissingAsInvalid(content_type) ==
    IF content_type = None THEN "InvalidContentType"
    ELSE LET text == to_str(content_type[1])
         IN IF ~ text.ok THEN "Panic"
            ELSE IF /\ ~ starts_with(text.val, APPLICATION_WWW_FORM_URLENCODED)
                    /\ ~ starts_with(text.val, MULTIPART_FORM_DATA)
                 THEN "InvalidContentType"
            ELSE "Accepted"

\* form.rs: the same match, with ct.to_str().unwrap().starts_with(..) on the
\* two accepted prefixes; unwrap panics when to_str fails.
FormGuard(content_type) ==
    IF content_type = None THEN "MissingContentType"
    ELSE LET text == to_str(content_type[1])
         IN IF ~ text.ok THEN "Panic"
            ELSE IF /\ ~ starts_with(text.val, APPLICATION_WWW_FORM_URLENCODED)
                    /\ ~ starts_with(text.val, MULTIPART_FORM_DATA)
                 THEN "InvalidContentType"
            ELSE "Accepted"

\* "text/plain; charset=utf-8", the content type of actix-web's error responses
TEXT_PLAIN_UTF_8 == <<116, 101, 120, 116, 47, 112, 108, 97, 105, 110, 59, 32, 99, 104, 97, 114, 115, 101, 116, 61, 117, 116, 102, 45, 56>>

\* ------------------------------------------------------------ Body Reader
\* <Bytes as FromRequest>::Future, created by Bytes::from_request(req, payload).
\* The payload is what the transport will deliver: `pending` polls answer
\* Pending, then the reader completes with `result`.
Payloads == [pending : 0..MaxPending, result : ReaderResults]

Bytes_from_request(payload) ==
    [pending |-> payload.pending, result |-> payload.result, done |-> FALSE]

\* Poll<X>: None is Pending, Some(x) is Ready(x).
BytesFut_poll(b) ==
    IF b.pending > 0
    THEN [fut |-> [b EXCEPT !.pending = @ - 1], poll |-> None]
    ELSE [fut |-> [b EXCEPT !.done = TRUE], poll |-> Some(b.result)]

\* ------------------------------------------------------------ extraction futures
\* HttpRequest, as far as the extractors read it.
Requests == [content_type : ContentTypes]

\* The ids of the extraction futures in flight.
Futs == {"fut1"}

VARIABLES
    futs    \* future id -> JsonExtractFut / FormExtractFut with its history

vars == <<futs>>

\* The fields req and bytes are the struct's; request is the HttpRequest the
\* future was built from; out is what poll returned Ready with (None: nothing
\* yet); panicked tells that poll unwound; resp is the response rendered from
\* the outcome.  payload is what the transport delivers to the Body Reader;
\* verdict, guard_runs, bytes_polls, decode_calls, decoded and polls record
\* what the polls did; respond_args records how encoding and framing went
\* when the responder ran.
NewFut(fmt, req, payload) ==
    [ fmt          |-> fmt,
      request      |-> req,
      payload      |-> payload,
      req          |-> Some(req),
      bytes        |-> Bytes_from_request(payload),
      out          |-> None,
      panicked     |-> FALSE,
      resp         |-> None,
      respond_args |-> None,
      verdict      |-> "NotRun",
      guard_runs   |-> 0,
      bytes_polls  |-> 0,
      decode_calls |-> 0,
      decoded      |-> None,
      polls        |-> 0 ]

\* impl FromRequest for Json<T>
Json_from_request(req, payload) == NewFut("json", req, payload)

\* impl FromRequest for Form<T>
Form_from_request(req, payload) == NewFut("form", req, payload)

\* Option_take reading the slot without emptying it (as_ref for take).
Option_take_NoClear(slot) == [slot |-> slot, taken |-> slot]

\* Option::take
Option_take(slot) == [slot |-> None, taken |-> slot]

VerdictRejection(verdict) ==
    IF verdict = "MissingContentType" THEN MissingContentType ELSE InvalidContentType

\* The guard ran on this poll with this verdict.
GuardRan(s, verdict) == [s EXCEPT !.verdict = verdict, !.guard_runs = @ + 1]

\* The codec was called on this poll and returned d.
DecodeRan(s, d) == [s EXCEPT !.decoded = Some(d), !.decode_calls = @ + 1]

\* JsonDecodeStep reading a failed body as an empty one and decoding it.
JsonDecodeStep_ReadErrorAsEmpty(s, res) ==
    LET d == facet_json_from_slice(IF res.ok THEN res.val ELSE <<>>)
    IN IF d.ok
       THEN [DecodeRan(s, d) EXCEPT !.out = Some(Ok(Json(d.val)))]
       ELSE [DecodeRan(s, d) EXCEPT !.out = Some(Err(Deserialize(d.err)))]

\* JsonDecodeStep calling the codec a second time when it has failed.
JsonDecodeStep_RetryDecode(s, res) ==
    IF ~ res.ok
    THEN [s EXCEPT !.out = Some(Err(Body(res.err)))]
    ELSE LET d == facet_json_from_slice(res.val)
         IN IF d.ok
            THEN [DecodeRan(s, d) EXCEPT !.out = Some(Ok(Json(d.val)))]
            ELSE [DecodeRan(DecodeRan(s, d), d) EXCEPT !.out = Some(Err(Deserialize(d.err)))]

\* json.rs, lines 141-147: the match on the Body Reader's result.
JsonDecodeStep(s, res) ==
    IF ~ res.ok
    THEN [s EXCEPT !.out = Some(Err(Body(res.err)))]
    ELSE LET d == facet_json_from_slice(res.val)
         IN IF d.ok
            THEN [DecodeRan(s, d) EXCEPT !.out = Some(Ok(Json(d.val)))]
            ELSE [DecodeRan(s, d) EXCEPT !.out = Some(Err(Deserialize(d.err)))]

\* JsonBytesStep building a fresh Body Reader when the held one is pending.
JsonBytesStep_RestartReader(s) ==
    LET p == BytesFut_poll(s.bytes)
        s1 == [s EXCEPT !.bytes = p.fut, !.bytes_polls = @ + 1]
    IN IF p.poll = None
       THEN [s1 EXCEPT !.bytes = Bytes_from_request(s.payload)]
       ELSE JsonDecodeStep(s1, p.poll[1])

\* json.rs, lines 137-149: poll the Body Reader; Pending propagates (ready!).
JsonBytesStep(s) ==
    LET p == BytesFut_poll(s.bytes)
        s1 == [s EXCEPT !.bytes = p.fut, !.bytes_polls = @ + 1]
    IN IF p.poll = None THEN s1 ELSE JsonDecodeStep(s1, p.poll[1])

\* JsonExtractFut_poll going on to the Body Reader after a rejecting guard.
JsonExtractFut_poll_NoShortCircuit(s) ==
    LET t == Option_take(s.req)
        s1 == [s EXCEPT !.req = t.slot, !.polls = @ + 1]
    IN IF t.taken = None
       THEN JsonBytesStep(s1)
       ELSE LET verdict == JsonGuard(t.taken[1].content_type)
                s2 == JsonBytesStep(GuardRan(s1, verdict))
            IN IF verdict = "Accepted" \/ s2.out # None
               THEN s2
               ELSE [s2 EXCEPT !.out = Some(Err(VerdictRejection(verdict)))]

\* impl Future for JsonExtractFut<T>: one call of poll.
JsonExtractFut_poll(s) ==
    LET t == Option_take(s.req)
        s1 == [s EXCEPT !.req = t.slot, !.polls = @ + 1]
    IN IF t.taken = None
       THEN JsonBytesStep(s1)
       ELSE LET verdict == JsonGuard(t.taken[1].content_type)
            IN IF verdict = "Accepted"
               THEN JsonBytesStep(GuardRan(s1, verdict))
               ELSE [GuardRan(s1, verdict) EXCEPT !.out = Some(Err(VerdictRejection(verdict)))]

\* FormDecodeStep reporting the codec's error as a body read failure.
FormDecodeStep_DecodeErrorAsBody(s, res) ==
    IF ~ res.ok
    THEN [s EXCEPT !.out = Some(Err(Body(res.err)))]
    ELSE LET text == from_utf8(res.val)
         IN IF ~ text.ok
            THEN [s EXCEPT !.panicked = TRUE]
            ELSE LET d == facet_urlencoded_from_str_owned(text.val)
                 IN IF d.ok
                    THEN [DecodeRan(s, d) EXCEPT !.out = Some(Ok(Form(d.val)))]
                    ELSE [DecodeRan(s, d) EXCEPT !.out = Some(Err(Body(d.err)))]

\* FormDecodeStep answering a codec error with a wrapper of the default value.
FormDecodeStep_DefaultOnError(s, res) ==
    IF ~ res.ok
    THEN [s EXCEPT !.out = Some(Err(Body(res.err)))]
    ELSE LET text == from_utf8(res.val)
         IN IF ~ text.ok
            THEN [s EXCEPT !.panicked = TRUE]
            ELSE LET d == facet_urlencoded_from_str_owned(text.val)
                 IN IF d.ok
                    THEN [DecodeRan(s, d) EXCEPT !.out = Some(Ok(Form(d.val)))]
                    ELSE [DecodeRan(s, d) EXCEPT !.out = Some(Ok(Form(0)))]

\* form.rs, lines 148-157: the match on the Body Reader's result;
\* str::from_utf8(..).unwrap() panics on bytes that are not UTF-8.
FormDecodeStep(s, res) ==
    IF ~ res.ok
    THEN [s EXCEPT !.out = Some(Err(Body(res.err)))]
    ELSE LET text == from_utf8(res.val)
         IN IF ~ text.ok
            THEN [s EXCEPT !.panicked = TRUE]
            ELSE LET d == facet_urlencoded_from_str_owned(text.val)
                 IN IF d.ok
                    THEN [DecodeRan(s, d) EXCEPT !.out = Some(Ok(Form(d.val)))]
                    ELSE [DecodeRan(s, d) EXCEPT !.out = Some(Err(Deserialize(d.err)))]

\* form.rs, lines 144-159.
FormBytesStep(s) ==
    LET p == BytesFut_poll(s.bytes)
        s1 == [s EXCEPT !.bytes = p.fut, !.bytes_polls = @ + 1]
    IN IF p.poll = None THEN s1 ELSE FormDecodeStep(s1, p.poll[1])

\* FormExtractFut_poll returning Pending once the guard has accepted, leaving
\* the Body Reader to the next poll.
FormExtractFut_poll_YieldAfterGuard(s) ==
    LET t == Option_take(s.req)
        s1 == [s EXCEPT !.req = t.slot, !.polls = @ + 1]
    IN IF t.taken = None
       THEN FormBytesStep(s1)
       ELSE LET verdict == FormGuard(t.taken[1].content_type)
            IN IF verdict = "Panic"
               THEN [GuardRan(s1, verdict) EXCEPT !.panicked = TRUE]
               ELSE IF verdict = "Accepted"
               THEN GuardRan(s1, verdict)
               ELSE [GuardRan(s1, verdict) EXCEPT !.out = Some(Err(VerdictRejection(verdict)))]

\* impl Future for FormExtractFut<T>: one call of poll.
FormExtractFut_poll(s) ==
    LET t == Option_take(s.req)
        s1 == [s EXCEPT !.req = t.slot, !.polls = @ + 1]
    IN IF t.taken = None
       THEN FormBytesStep(s1)
       ELSE LET verdict == FormGuard(t.taken[1].content_type)
            IN IF verdict = "Panic"
               THEN [GuardRan(s1, verdict) EXCEPT !.panicked = TRUE]
               ELSE IF verdict = "Accepted"
               THEN FormBytesStep(GuardRan(s1, verdict))
               ELSE [GuardRan(s1, verdict) EXCEPT !.out = Some(Err(VerdictRejection(verdict)))]

\* ------------------------------------------------------------ responses
Response(status, content_type, body) ==
    [status |-> status, content_type |-> content_type, body |-> body]

\* HttpResponse::from_error(err): the error's status code and its text.
HttpResponse_from_error(status, text) == Response(status, TEXT_PLAIN_UTF_8, text)

\* HttpResponse::Ok().content_type(mime::APPLICATION_JSON).message_body(body):
\* the response, or the builder's error when framing fails.
message_body(body, framing_fails) ==
    IF framing_fails THEN Err("HttpError") ELSE Ok(Response(OK, APPLICATION_JSON, body))

\* Json_respond_to answering an encode failure with 422.
Json_respond_to_EncodeError422(w, encode_fails, framing_fails) ==
    LET enc == facet_json_to_string(w.inner, encode_fails)
    IN IF enc.ok
       THEN LET framed == message_body(enc.val, framing_fails)
            IN IF framed.ok THEN framed.val
               ELSE HttpResponse_from_error(INTERNAL_SERVER_ERROR, <<framed.err>>)
       ELSE HttpResponse_from_error(UNPROCESSABLE_ENTITY, <<enc.err>>)

\* Json_respond_to writing the wrapper as a one-element array instead of
\* transparently as its inner value.
Json_respond_to_Envelope(w, encode_fails, framing_fails) ==
    LET enc == facet_json_to_string(w.inner, encode_fails)
    IN IF enc.ok
       THEN LET framed == message_body(<<91>> \o enc.val \o <<93>>, framing_fails)
            IN IF framed.ok THEN framed.val
               ELSE HttpResponse_from_error(INTERNAL_SERVER_ERROR, <<framed.err>>)
       ELSE HttpResponse_from_error(INTERNAL_SERVER_ERROR, <<enc.err>>)

\* impl Responder for Json<T>: respond_to.  SerializeErrorToActixError and
\* the builder's error both have status 500.
Json_respond_to(w, encode_fails, framing_fails) ==
    LET enc == facet_json_to_string(w.inner, encode_fails)
    IN IF enc.ok
       THEN LET framed == message_body(enc.val, framing_fails)
            IN IF framed.ok THEN framed.val
               ELSE HttpResponse_from_error(INTERNAL_SERVER_ERROR, <<framed.err>>)
       ELSE HttpResponse_from_error(INTERNAL_SERVER_ERROR, <<enc.err>>)

\* examples/actix_web_server: async fn facet(item: Json<Query>) -> Json<Query> { item }
facet(item) == item

\* ------------------------------------------------------------ the state machine
\* A future is polled until it returns Ready (or unwinds), and not after.
Live(s) == s.out = None /\ ~ s.panicked

Init ==
    futs \in [Futs -> { Json_from_request(r, p) : r \in Requests, p \in Payloads }
                      \cup { Form_from_request(r, p) : r \in Requests, p \in Payloads }]

\* JsonPoll with one request slot shared by all futures instead of one slot
\* owned by each: taking it empties it for every future.
JsonPoll_SharedSlot(f) ==
    /\ futs[f].fmt = "json"
    /\ Live(futs[f])
    /\ futs' = [g \in DOMAIN futs |->
                  IF g = f THEN JsonExtractFut_poll(futs[g])
                  ELSE [futs[g] EXCEPT !.req = None]]

JsonPoll(f) ==
    /\ futs[f].fmt = "json"
    /\ Live(futs[f])
    /\ futs' = [futs EXCEPT ![f] = JsonExtractFut_poll(@)]

\* FormPoll with a guard that removes the Content-Type header from the request
\* it has checked: the futures built from that request and not yet polled find
\* none.
FormPoll_ConsumesHeader(f) ==
    /\ futs[f].fmt = "form"
    /\ Live(futs[f])
    /\ futs' = [g \in DOMAIN futs |->
                  IF g = f THEN FormExtractFut_poll(futs[g])
                  ELSE IF futs[g].request = futs[f].request /\ futs[g].req # None
                  THEN [futs[g] EXCEPT !.req = Some([content_type |-> None])]
                  ELSE futs[g]]

FormPoll(f) ==
    /\ futs[f].fmt = "form"
    /\ Live(futs[f])
    /\ futs' = [futs EXCEPT ![f] = FormExtractFut_poll(@)]

\* The echo handler runs on an extracted Json<T> and the server renders what
\* it returns.
JsonRespond(f) ==
    /\ futs[f].fmt = "json"
    /\ futs[f].out # None
    /\ futs[f].out[1].ok
    /\ futs[f].resp = None
    /\ \E encode_fails \in BOOLEAN, framing_fails \in BOOLEAN :
         futs' = [futs EXCEPT
                    ![f].respond_args = Some([encode_fails |-> encode_fails,
                                              framing_fails |-> framing_fails]),
                    ![f].resp = Some(Json_respond_to(facet(futs[f].out[1].val),
                                                     encode_fails, framing_fails))]

\* The server renders a JsonRejection: ResponseError::status_code and Display.
JsonErrorResponse(f) ==
    /\ futs[f].fmt = "json"
    /\ futs[f].out # None
    /\ ~ futs[f].out[1].ok
    /\ futs[f].resp = None
    /\ futs' = [futs EXCEPT ![f].resp =
                  Some(HttpResponse_from_error(JsonRejection_status_code(futs[f].out[1].err),
                                               JsonRejection_fmt(futs[f].out[1].err)))]

\* The server renders a FormRejection.
FormErrorResponse(f) ==
    /\ futs[f].fmt = "form"
    /\ futs[f].out # None
    /\ ~ futs[f].out[1].ok
    /\ futs[f].resp = None
    /\ futs' = [futs EXCEPT ![f].resp =
                  Some(HttpResponse_from_error(FormRejection_status_code(futs[f].out[1].err),
                                               FormRejection_fmt(futs[f].out[1].err)))]

Next ==
    \/ \E f \in DOMAIN futs : JsonPoll(f)
    \/ \E f \in DOMAIN futs : FormPoll(f)
    \/ \E f \in DOMAIN futs : JsonRespond(f)
    \/ \E f \in DOMAIN futs : JsonErrorResponse(f)
    \/ \E f \in DOMAIN futs : FormErrorResponse(f)

Spec == Init /\ [][Next]_vars

\* ------------------------------------------------------------ several requests
\* Two requests in flight on one worker, their polls interleaved.  Futures
\* whose request fields are equal are built from the same request (from_request
\* clones the handle).
MultiFuts == {"fut1", "fut2"}

MultiRequests ==
    [content_type : {None, Some(APPLICATION_JSON), Some(CtTextPlain),
                     Some(CtFormCharset), Some(CtOpaque)}]

MultiPayloads ==
    [pending : {0, 1},
     result : {Ok(BodyJson7), Ok(BodyForm7), Ok(BodyFormBad), Ok(BodyNotUtf8),
               Err("PayloadOverflow")}]

InitMulti ==
    futs \in [MultiFuts ->
                { Json_from_request(r, p) : r \in MultiRequests, p \in MultiPayloads }
                \cup { Form_from_request(r, p) : r \in MultiRequests, p \in MultiPayloads }]

SpecMulti == InitMulti /\ [][Next]_vars

\* ------------------------------------------------------------ claims
\* The status the server gives a rejection of future s.
StatusOf(s, r) ==
    IF s.fmt = "json" THEN JsonRejection_status_code(r) ELSE FormRejection_status_code(r)

\* Future s returned Ready(Err(r)).
Rejected(s, r) == s.out = Some(Err(r))

\* The response rendered for s, when there is one, has this status.
RenderedStatus(s, status) == s.resp # None => s.resp[1].status = status

\* The codec's verdict on body bytes the codec can be given: the JSON codec
\* takes bytes, the form codec takes text.
CodecResult(fmt, data) ==
    IF fmt = "json" THEN facet_json_from_slice(data) ELSE facet_urlencoded_from_str_owned(data)

CodecTakes(fmt, data) == fmt = "json" \/ from_utf8(data).ok

\* C1: for both formats, a request without a Content-Type header is answered
\* on the first poll with Ready(MissingContentType), status 415, whatever the
\* Body Reader holds (pending polls, an error, or bytes that would decode).
C1_MissingContentType ==
    \A f \in DOMAIN futs :
        LET s == futs[f]
        IN (s.request.content_type = None /\ s.polls >= 1) =>
              /\ s.polls = 1
              /\ ~ s.panicked
              /\ Rejected(s, MissingContentType)
              /\ StatusOf(s, s.out[1].err) = 415
              /\ RenderedStatus(s, 415)

\* A form request without header was rejected on its first poll while its
\* Body Reader still had a pending poll to answer and decodable bytes to
\* deliver, and the rejection was rendered.
C1_Witness ==
    \E f \in DOMAIN futs :
        LET s == futs[f]
        IN /\ s.fmt = "form"
           /\ s.request.content_type = None
           /\ s.polls = 1
           /\ s.payload.pending > 0
           /\ s.payload.result = Ok(BodyForm7)
           /\ Rejected(s, MissingContentType)
           /\ s.resp # None

\* The header is present and is not in the format's accepted set: for JSON
\* it is not the bytes of application/json, for the form format it starts
\* with neither accepted prefix.
NotAccepted(fmt, value) ==
    IF fmt = "json" THEN value # APPLICATION_JSON
    ELSE /\ ~ starts_with(value, APPLICATION_WWW_FORM_URLENCODED)
         /\ ~ starts_with(value, MULTIPART_FORM_DATA)

\* C2: for both formats, a request whose Content-Type header is present and
\* not in the accepted set is answered on the first poll with
\* Ready(InvalidContentType), status 415, whatever the Body Reader holds.
C2_InvalidContentType ==
    \A f \in DOMAIN futs :
        LET s == futs[f]
        IN (/\ s.request.content_type # None
            /\ NotAccepted(s.fmt, s.request.content_type[1])
            /\ s.polls >= 1) =>
              /\ s.polls = 1
              /\ Rejected(s, InvalidContentType)
              /\ StatusOf(s, s.out[1].err) = 415
              /\ RenderedStatus(s, 415)

\* C3: for both formats, when the guard accepted and the Body Reader
\* completed with bytes the codec rejects (for the form codec, which takes
\* text: UTF-8 text it rejects), the extraction ends with DecodeFailure
\* carrying the very error the codec returned, status 422.
C3_DecodeFailure ==
    \A f \in DOMAIN futs :
        LET s == futs[f]
            data == s.bytes.result.val
        IN /\ (/\ s.verdict = "Accepted"
               /\ s.bytes.done
               /\ s.bytes.result.ok
               /\ CodecTakes(s.fmt, data)
               /\ ~ CodecResult(s.fmt, data).ok) =>
                  /\ s.decoded = Some(CodecResult(s.fmt, data))
                  /\ Rejected(s, Deserialize(CodecResult(s.fmt, data).err))
                  /\ StatusOf(s, s.out[1].err) = 422
                  /\ RenderedStatus(s, 422)
           /\ (s.decoded # None /\ ~ s.decoded[1].ok) =>
                  Rejected(s, Deserialize(s.decoded[1].err))

\* A form body with a bad value was rejected with the codec's own error,
\* after a pending poll, and the rejection was rendered.
C3_Witness ==
    \E f \in DOMAIN futs :
        LET s == futs[f]
        IN /\ s.verdict = "Accepted"
           /\ s.polls >= 2
           /\ s.resp # None
           /\ s.fmt = "form"
           /\ s.payload.result = Ok(BodyFormBad)
           /\ Rejected(s, Deserialize("InvalidValue"))

\* C4: for both formats, when the guard accepted and the Body Reader
\* completed with an error, the extraction ends with BodyReadFailure carrying
\* that transport error, status 400, and the codec was never called.
C4_BodyReadFailure ==
    \A f \in DOMAIN futs :
        LET s == futs[f]
        IN (s.verdict = "Accepted" /\ s.bytes.done /\ ~ s.bytes.result.ok) =>
              /\ Rejected(s, Body(s.bytes.result.err))
              /\ s.decode_calls = 0
              /\ s.decoded = None
              /\ StatusOf(s, s.out[1].err) = 400
              /\ RenderedStatus(s, 400)

\* The Body Reader of an accepted request failed after a pending poll and the
\* rejection was rendered.
C4_Witness ==
    \E f \in DOMAIN futs :
        LET s == futs[f]
        IN /\ s.verdict = "Accepted"
           /\ s.polls >= 2
           /\ s.bytes.done
           /\ Rejected(s, Body("PayloadIncomplete"))
           /\ s.resp # None

\* Every value of the rejection type: the four variants, each payload.
DecodeErrors == { "UnexpectedEof", "UnexpectedToken", "NumberOutOfRange", "InvalidValue", "MissingField" }

Rejections ==
    { Body(e) : e \in TransportErrors } \cup { Deserialize(e) : e \in DecodeErrors }
        \cup { MissingContentType, InvalidContentType }

ExpectedStatus(kind) ==
    CASE kind = "Body" -> 400
      [] kind = "Deserialize" -> 422
      [] kind = "MissingContentType" -> 415
      [] kind = "InvalidContentType" -> 415

\* C5: the status of a rejection is defined for every variant, is the same
\* for JsonRejection and FormRejection, is 400 / 422 / 415 / 415 for
\* BodyReadFailure / DecodeFailure / MissingContentType / InvalidContentType
\* whatever the payload, and is the status of every rendered rejection.
C5_StatusMapping ==
    /\ \A r \in Rejections :
          /\ JsonRejection_status_code(r) = ExpectedStatus(r.kind)
          /\ FormRejection_status_code(r) = ExpectedStatus(r.kind)
    /\ \A f \in DOMAIN futs :
          LET s == futs[f]
          IN (s.out # None /\ ~ s.out[1].ok) =>
                /\ s.out[1].err \in Rejections
                /\ RenderedStatus(s, ExpectedStatus(s.out[1].err.kind))

\* A form DecodeFailure was rendered.
C5_Witness ==
    \E f \in DOMAIN futs :
        LET s == futs[f]
        IN /\ s.fmt = "form"
           /\ s.out # None
           /\ ~ s.out[1].ok
           /\ s.out[1].err.kind = "Deserialize"
           /\ s.resp # None
           /\ s.resp[1].status = 422

\* C6: Json<T>::respond_to yields a response in the step it is called in:
\* 200 with Content-Type application/json and the encoded text as body when
\* encoding and framing succeed, 500 when framing fails, 500 with the encode
\* error's text when encoding fails; it yields no other status.
C6_RespondTo ==
    \A f \in DOMAIN futs :
        LET s == futs[f]
        IN /\ (s.fmt = "json" /\ s.out # None /\ s.out[1].ok) =>
                  (s.respond_args # None <=> s.resp # None)
           /\ s.respond_args # None =>
                 LET a == s.respond_args[1]
                     v == into_inner(s.out[1].val)
                     r == s.resp[1]
                 IN /\ r.status \in {200, 500}
                    /\ (~ a.encode_fails /\ ~ a.framing_fails) =>
                          /\ r.status = 200
                          /\ r.content_type = APPLICATION_JSON
                          /\ r.body = DecimalText(v)
                    /\ (~ a.encode_fails /\ a.framing_fails) => r.status = 500
                    /\ a.encode_fails =>
                          /\ r.status = 500
                          /\ r.body = <<"SerializeError">>

\* The responder failed to encode the extracted value 12 and answered 500.
C6_Witness ==
    \E f \in DOMAIN futs :
        LET s == futs[f]
        IN /\ s.respond_args # None
           /\ s.respond_args[1].encode_fails
           /\ s.out = Some(Ok(Json(12)))
           /\ s.resp # None
           /\ s.resp[1].status = 500

\* C7: the Body Reader is polled only once the guard has accepted; when the
\* guard rejects, the Body Reader created at construction is left as it was
\* created, never polled.
C7_ReaderAfterGuard ==
    \A f \in DOMAIN futs :
        LET s == futs[f]
        IN /\ s.bytes_polls > 0 => s.verdict = "Accepted"
           /\ s.verdict \in {"MissingContentType", "InvalidContentType"} =>
                 /\ s.bytes_polls = 0
                 /\ s.bytes = Bytes_from_request(s.payload)

\* A JSON request with a rejected header ended while its Body Reader, ready
\* to deliver decodable bytes at once, had not been polled.
C7_Witness ==
    \E f \in DOMAIN futs :
        LET s == futs[f]
        IN /\ s.fmt = "json"
           /\ s.verdict = "InvalidContentType"
           /\ s.out # None
           /\ s.payload = [pending |-> 0, result |-> Ok(BodyJson7)]
           /\ s.bytes_polls = 0

\* C8: the guard runs at most once per future: the request slot holds the
\* request exactly until the first poll, is empty after it whatever the
\* verdict, stays empty, and the polls after the first do not run the guard.
C8_GuardOnce ==
    \A f \in DOMAIN futs :
        LET s == futs[f]
        IN /\ s.guard_runs <= 1
           /\ s.polls = 0 => (s.req = Some(s.request) /\ s.guard_runs = 0)
           /\ s.polls > 0 => (s.req = None /\ s.guard_runs = 1)

\* A future was polled three times and ran the guard once.
C8_Witness ==
    \E f \in DOMAIN futs :
        LET s == futs[f]
        IN s.polls = 3 /\ s.guard_runs = 1 /\ s.req = None /\ s.out # None

\* C9: an extraction ends with a populated wrapper or with one of the four
\* rejections and in no other way, whatever the header and the body.
C9_TerminalOutcome ==
    \A f \in DOMAIN futs :
        LET s == futs[f]
        IN ~ Live(s) =>
              /\ s.out # None
              /\ (s.out[1].ok \/ s.out[1].err \in Rejections)

\* C10: for every Content-Type header value, the guard of each format
\* has one of the verdicts Accepted, MissingContentType (header absent),
\* InvalidContentType (header present, not matching).
C10_GuardVerdict ==
    \A f \in DOMAIN futs :
        LET s == futs[f]
        IN s.polls >= 1 =>
              /\ s.verdict \in {"Accepted", "MissingContentType", "InvalidContentType"}
              /\ (s.verdict = "MissingContentType" <=> s.request.content_type = None)
              /\ (s.request.content_type # None /\ NotAccepted(s.fmt, s.request.content_type[1]))
                    => s.verdict = "InvalidContentType"

\* C11: in the form extractor, when the guard accepted and the Body Reader
\* completed with bytes that are not well-formed UTF-8, the poll does not
\* unwind and the extraction ends with BodyReadFailure, status 400.
C11_InvalidUtf8IsBodyReadFailure ==
    \A f \in DOMAIN futs :
        LET s == futs[f]
        IN (/\ s.fmt = "form"
            /\ s.verdict = "Accepted"
            /\ s.bytes.done
            /\ s.bytes.result.ok
            /\ ~ from_utf8(s.bytes.result.val).ok) =>
              /\ ~ s.panicked
              /\ s.out # None
              /\ ~ s.out[1].ok
              /\ s.out[1].err.kind = "Body"
              /\ StatusOf(s, s.out[1].err) = 400

\* The header is present and in the format's accepted set, read as bytes.
Matches(fmt, value) == ~ NotAccepted(fmt, value)

\* C12: the JSON guard accepts a present header iff its value is, byte for
\* byte, application/json (parameters or another letter case are rejected
\* with InvalidContentType); the form guard accepts a present header iff its
\* value starts with application/x-www-form-urlencoded or multipart/form-data.
C12_AcceptedSet ==
    \A f \in DOMAIN futs :
        LET s == futs[f]
            ct == s.request.content_type
        IN (s.polls >= 1 /\ ct # None) =>
              /\ s.verdict = "Accepted" <=> Matches(s.fmt, ct[1])
              /\ (s.fmt = "json" /\ ct[1] \in {CtJsonCharset, CtJsonUpper}) =>
                    Rejected(s, InvalidContentType)
              /\ (s.fmt = "form" /\ ct[1] \in {CtFormCharset, CtMultipartBoundary}) =>
                    s.verdict = "Accepted"

\* The values of the target type T = u8.
Values == 0..255

IsPoll(f) == futs'[f].polls = futs[f].polls + 1

\* Future s, just polled, returned Pending.
ReturnedPending(s) == s.out = None /\ ~ s.panicked

GuardRejected(s) == s.verdict \in {"MissingContentType", "InvalidContentType"}

\* C14: a poll returns not-ready iff in that poll the guard did not reject and
\* the Body Reader was polled and answered not-ready; a guard rejection is
\* returned Ready by the first poll; the codec is called in the very poll in
\* which the Body Reader completes with bytes, and that poll is never
\* answered not-ready.
C14_OnlySuspensionPoint ==
    [][\A f \in DOMAIN futs :
          IsPoll(f) =>
             LET s == futs[f]
                 n == futs'[f]
                 completes == n.bytes.done /\ ~ s.bytes.done
             IN /\ ReturnedPending(n) <=>
                      (/\ ~ GuardRejected(n)
                       /\ n.bytes_polls = s.bytes_polls + 1
                       /\ ~ n.bytes.done)
                /\ GuardRejected(n) =>
                      (s.polls = 0 /\ Rejected(n, VerdictRejection(n.verdict)))
                /\ completes => ~ ReturnedPending(n)
                /\ (completes /\ n.bytes.result.ok /\ CodecTakes(n.fmt, n.bytes.result.val)) =>
                      (n.decode_calls = s.decode_calls + 1 /\ n.out # None)
                /\ n.decode_calls > s.decode_calls => completes]_vars

\* A form future was answered not-ready by its first poll and decoded its
\* body in its second.
C14_Witness ==
    \E f \in DOMAIN futs :
        LET s == futs[f]
        IN /\ s.fmt = "form"
           /\ s.payload.pending = 1
           /\ s.polls = 2
           /\ s.bytes_polls = 2
           /\ s.decode_calls = 1
           /\ s.out = Some(Ok(Form(7)))

\* C15: a poll that returns not-ready changes nothing but this: the request
\* slot is empty afterwards and the held Body Reader, the one created at
\* construction, has been polled once more; nothing is decoded, and every
\* poll after the first goes straight on to poll that same Body Reader.
C15_PendingPollFrame ==
    [][\A f \in DOMAIN futs :
          IsPoll(f) =>
             LET s == futs[f]
                 n == futs'[f]
             IN /\ ReturnedPending(n) =>
                      /\ n.req = None
                      /\ n.bytes = BytesFut_poll(s.bytes).fut
                      /\ n.bytes = [pending |-> s.payload.pending - n.bytes_polls,
                                    result  |-> s.payload.result,
                                    done    |-> FALSE]
                      /\ n.decode_calls = s.decode_calls
                      /\ n.decoded = s.decoded
                      /\ n.request = s.request
                      /\ n.payload = s.payload
                      /\ n.fmt = s.fmt
                      /\ n.resp = s.resp
                /\ s.polls > 0 =>
                      /\ n.guard_runs = s.guard_runs
                      /\ n.verdict = s.verdict
                      /\ n.bytes_polls = s.bytes_polls + 1
                      /\ n.bytes = BytesFut_poll(s.bytes).fut]_vars

\* A JSON future was answered not-ready twice and its third poll, on the same
\* Body Reader, delivered the body.
C15_Witness ==
    \E f \in DOMAIN futs :
        LET s == futs[f]
        IN /\ s.fmt = "json"
           /\ s.payload = [pending |-> 2, result |-> Ok(BodyJson7)]
           /\ s.polls = 3
           /\ s.bytes_polls = 3
           /\ s.bytes.done
           /\ s.out = Some(Ok(Json(7)))

\* C16: an extraction surfaces at most one outcome and retries nothing: the
\* Body Reader is polled pending + 1 times at most and not again once it has
\* completed, the codec is called at most once, and once poll has returned
\* Ready (or unwound) the future is not touched again; its outcome is
\* rendered once.
C16_SingleOutcome ==
    /\ [](\A f \in DOMAIN futs :
             LET s == futs[f]
             IN /\ s.decode_calls <= 1
                /\ s.bytes_polls <= s.payload.pending + 1
                /\ s.bytes.done => s.bytes_polls = s.payload.pending + 1
                /\ s.bytes.done => ~ Live(s)
                /\ ~ (s.out # None /\ s.panicked))
    /\ [][\A f \in DOMAIN futs :
             LET s == futs[f]
                 n == futs'[f]
             IN /\ ~ Live(s) =>
                      /\ n.out = s.out
                      /\ n.panicked = s.panicked
                      /\ n.polls = s.polls
                      /\ n.bytes = s.bytes
                      /\ n.bytes_polls = s.bytes_polls
                      /\ n.decode_calls = s.decode_calls
                      /\ n.decoded = s.decoded
                /\ s.resp # None => n.resp = s.resp]_vars

\* A JSON body the codec rejects was decoded once, after a pending poll, and
\* the one rejection was rendered.
C16_Witness ==
    \E f \in DOMAIN futs :
        LET s == futs[f]
        IN /\ s.fmt = "json"
           /\ s.payload = [pending |-> 1, result |-> Ok(BodyFormBad)]
           /\ s.bytes.done
           /\ s.bytes_polls = 2
           /\ s.decode_calls = 1
           /\ Rejected(s, Deserialize("UnexpectedToken"))
           /\ s.resp # None

\* The wrapper of a format around a value.
Wrapper(fmt, v) == IF fmt = "json" THEN Json(v) ELSE Form(v)

\* C17: an extraction ends with a populated wrapper only if the guard
\* accepted, the Body Reader completed with bytes and the codec, given
\* exactly those bytes, succeeded; the wrapper holds the codec's value, and
\* into_inner and deref return it.
C17_WrapperOnlyFromDecode ==
    \A f \in DOMAIN futs :
        LET s == futs[f]
        IN (s.out # None /\ s.out[1].ok) =>
              /\ s.verdict = "Accepted"
              /\ s.bytes.done
              /\ s.bytes.result = s.payload.result
              /\ s.bytes.result.ok
              /\ CodecTakes(s.fmt, s.bytes.result.val)
              /\ CodecResult(s.fmt, s.bytes.result.val).ok
              /\ s.decode_calls = 1
              /\ s.decoded = Some(CodecResult(s.fmt, s.bytes.result.val))
              /\ s.out[1].val = Wrapper(s.fmt, s.decoded[1].val)
              /\ into_inner(s.out[1].val) = s.decoded[1].val
              /\ deref(s.out[1].val) = s.decoded[1].val

\* The form body "n=7" ended as a wrapper around 7.
C17_Witness ==
    \E f \in DOMAIN futs :
        LET s == futs[f]
        IN /\ s.fmt = "form"
           /\ s.request.content_type = Some(CtFormCharset)
           /\ s.payload.result = Ok(BodyForm7)
           /\ s.out # None
           /\ s.out[1].ok
           /\ into_inner(s.out[1].val) = 7

\* One poll of a future of either format.
PollOf(s) == IF s.fmt = "json" THEN JsonExtractFut_poll(s) ELSE FormExtractFut_poll(s)

\* The future after k polls with nothing else running (fewer if it ends before).
RECURSIVE PolledAlone(_, _)
PolledAlone(s, k) == IF k = 0 \/ ~ Live(s) THEN s ELSE PolledAlone(PollOf(s), k - 1)

\* The extraction state without the response rendered from it.
Extraction(s) == [s EXCEPT !.resp = None, !.respond_args = None]

\* C18: with the polls of several in-flight futures interleaved in any
\* order, a step touches one future only, and every future is, after each of
\* its polls and at its end, in the state it reaches when polled alone on the
\* same header, Body Reader results and codec.
C18_Isolation ==
    /\ [](\A f \in DOMAIN futs :
             LET s == futs[f]
             IN Extraction(s) = PolledAlone(NewFut(s.fmt, s.request, s.payload), s.polls))
    /\ [][\E f \in DOMAIN futs : \A g \in DOMAIN futs \ {f} : futs'[g] = futs[g]]_vars

\* A form future is between its first and second poll while a JSON future,
\* built from an equal request, has run to its rejection and been rendered.
C18_Witness ==
    /\ futs["fut1"].fmt = "form"
    /\ futs["fut1"].request.content_type = Some(CtFormCharset)
    /\ futs["fut1"].polls = 1
    /\ Live(futs["fut1"])
    /\ futs["fut2"].fmt = "json"
    /\ futs["fut2"].request = futs["fut1"].request
    /\ Rejected(futs["fut2"], InvalidContentType)
    /\ futs["fut2"].resp # None

====
